---- MODULE Spec2Model ----
(***************************************************************************)
(* Model of CyFeng16/depth_estimator: the port derivation of func.py, the  *)
(* device probe, the DepthAnythingPipeline wrapper and the Gradio request  *)
(* handler estimate_depth_wrapper of app.py.                               *)
(***************************************************************************)
EXTENDS Integers, Sequences, FiniteSets, Bags, TLC

(***************************************************************************)
(* Bounds of the model.                                                    *)
(***************************************************************************)
\* longest input string (in code points) handed to string_to_port_crc32
MaxLen == 3
\* largest number of requests the UI framework's queue runs at a time
NThreads == 2
\* number of invocations (UI requests, calls of a wrapper object) started in a
\* run, and number of wrapper objects a caller of the class creates
MaxOps == 2
\* largest height and width of a depth map
MaxDim == 2

VARIABLES
    port_input,     \* the string a caller derives a port from
    port_first,     \* outcome of the first derivation from port_input
    port_again,     \* outcome of a second derivation from port_input
    server_port,    \* port the process listens on (NotListening before launch)
    mps_available,  \* torch.backends.mps.is_available()
    cuda_available, \* torch.cuda.is_available()
    model_loads,    \* whether transformers.pipeline(...) can load the model
    depth_map,      \* the depth image the model infers for the image file
    workers,        \* the threads on which the UI framework's queue runs requests
    instances,      \* heap: the DepthAnythingPipeline objects, in creation order
    pipelines,      \* heap: the transformers pipelines created so far
    log,            \* loguru's sink: the bag of the entries emitted
    frame,          \* per thread: the locals of the operation it runs
    n_ops,          \* invocations started
    n_probe,        \* calls of set_device
    n_construct,    \* calls of transformers.pipeline(...)
    n_valid         \* wrapper invocations whose path validation succeeded

port_vars == <<port_input, port_first, port_again, server_port>>
env_vars == <<mps_available, cuda_available, model_loads, depth_map, workers>>
app_vars == <<instances, pipelines, log, frame, n_ops, n_probe, n_construct, n_valid>>
vars == <<port_vars, env_vars, app_vars>>

(***************************************************************************)
(* func.py: constants.                                                     *)
(***************************************************************************)
MIN_PORT == 10000
MAX_PORT == 60000

(***************************************************************************)
(* 32-bit unsigned arithmetic.  A 32-bit word is kept as the pair          *)
(* <<high 16 bits, low 16 bits>>, so that no intermediate value leaves the *)
(* range of TLC's integers.                                                *)
(***************************************************************************)
Half == 65536

RECURSIVE Xor16(_, _, _)
\* bitwise exclusive or of the low n bits of a and b
Xor16(a, b, n) ==
    IF n = 0 THEN 0
    ELSE (((a % 2) + (b % 2)) % 2) + 2 * Xor16(a \div 2, b \div 2, n - 1)

Xor32(x, y) == <<Xor16(x[1], y[1], 16), Xor16(x[2], y[2], 16)>>

\* x >> 1
Shr1(x) == <<x[1] \div 2, (x[2] \div 2) + (x[1] % 2) * (Half \div 2)>>

\* x >> 8
Shr8(x) == <<x[1] \div 256, (x[2] \div 256) + (x[1] % 256) * 256>>

\* x & 0xFFFFFFFF
Mask32(x) == <<x[1] % Half, x[2] % Half>>

\* x % m, for 0 < m < 2^16
Mod32(x, m) == ((x[1] * (Half % m)) + x[2]) % m

(***************************************************************************)
(* str.encode(): UTF-8.  A string is a sequence of code points.  A lone    *)
(* surrogate (U+D800..U+DFFF) has no UTF-8 encoding: encode() raises       *)
(* UnicodeEncodeError.                                                     *)
(***************************************************************************)
IsSurrogate(c) == c >= 55296 /\ c <= 57343

EncodeChar(c) ==
    IF c < 128 THEN <<c>>
    ELSE IF c < 2048 THEN <<192 + (c \div 64), 128 + (c % 64)>>
    ELSE IF c < 65536 THEN
        <<224 + (c \div 4096), 128 + ((c \div 64) % 64), 128 + (c % 64)>>
    ELSE <<240 + (c \div 262144), 128 + ((c \div 4096) % 64),
           128 + ((c \div 64) % 64), 128 + (c % 64)>>

RECURSIVE EncodeFrom(_, _)
EncodeFrom(s, i) ==
    IF i > Len(s) THEN <<>> ELSE EncodeChar(s[i]) \o EncodeFrom(s, i + 1)

Encodable(s) == \A i \in 1..Len(s) : ~IsSurrogate(s[i])

\* the bytes of s
Encode(s) == EncodeFrom(s, 1)

(***************************************************************************)
(* zlib.crc32: CRC-32 (reflected polynomial 0xEDB88320, initial value and  *)
(* final exclusive-or 0xFFFFFFFF).                                         *)
(***************************************************************************)
CrcPoly == <<60856, 33568>>
AllOnes == <<65535, 65535>>

RECURSIVE CrcBits(_, _)
\* k shift steps of the register
CrcBits(crc, k) ==
    IF k = 0 THEN crc
    ELSE CrcBits(IF crc[2] % 2 = 1 THEN Xor32(Shr1(crc), CrcPoly) ELSE Shr1(crc),
                 k - 1)

\* zlib's table: the register after the eight shift steps of one byte
CrcTable == [b \in 0..255 |-> CrcBits(<<0, b>>, 8)]

\* one byte: the register is shifted by eight bits through the table.
\* (A function, so that the register is a value before the step is taken.)
CrcStep ==
    [crc \in (0..65535) \X (0..65535), b \in 0..255 |->
        Xor32(CrcTable[Xor16(crc[2] % 256, b, 8)], Shr8(crc))]

RECURSIVE CrcBytes(_, _)
\* the register after the first n bytes
CrcBytes(bytes, n) ==
    IF n = 0 THEN AllOnes ELSE CrcStep[CrcBytes(bytes, n - 1), bytes[n]]

\* variant: the final exclusive-or is left out
crc32_no_final_xor(bytes) == CrcBytes(bytes, Len(bytes))

crc32(bytes) == Xor32(CrcBytes(bytes, Len(bytes)), AllOnes)

(***************************************************************************)
(* func.py: string_to_port_crc32.  The outcome of a call is a record:      *)
(* either a returned value or a raised exception.                          *)
(***************************************************************************)
Returned(v) == [ok |-> TRUE, value |-> v]
Raised(type, args) == [ok |-> FALSE, type |-> type, args |-> args]

\* variant: the hash is reduced modulo MAX_PORT, not the width of the range
PortModMax(input_string) ==
    IF ~Encodable(input_string)
    THEN Raised("UnicodeEncodeError", "surrogates not allowed")
    ELSE Returned(MIN_PORT + Mod32(Mask32(crc32(Encode(input_string))), MAX_PORT))

string_to_port_crc32(input_string) ==
    IF ~Encodable(input_string)
    THEN Raised("UnicodeEncodeError", "surrogates not allowed")
    ELSE LET crc32_hash == Mask32(crc32(Encode(input_string)))
             port_number == MIN_PORT + Mod32(crc32_hash, MAX_PORT - MIN_PORT)
         IN  Returned(port_number)

(***************************************************************************)
(* app.py: constants.                                                      *)
(***************************************************************************)
\* "depth_estimator"
APP_NAME == <<100, 101, 112, 116, 104, 95, 101, 115, 116, 105, 109, 97, 116, 111, 114>>

DEFAULT_PORT == string_to_port_crc32(APP_NAME).value

(***************************************************************************)
(* Input strings of the port derivation: 'a', e-acute, the euro sign, an   *)
(* emoji (1 to 4 bytes of UTF-8), NUL and a lone surrogate.                *)
(***************************************************************************)
CodePoints == {0, 97, 233, 8364, 128512, 55296}

Strings == UNION {[1..n -> CodePoints] : n \in 0..MaxLen}

NotListening == 0
NotCalled == [ok |-> FALSE, type |-> "NotCalled", args |-> ""]

(***************************************************************************)
(* Values.  An image_fp is None (Gradio hands None when no image was       *)
(* uploaded) or a str, kept as the sequence of its "/"-separated parts.    *)
(***************************************************************************)
NoneFp == [none |-> TRUE, parts |-> <<>>]
StrFp(parts) == [none |-> FALSE, parts |-> parts]

Threads == 1..NThreads

\* the files of the file system (normalised, relative to the working directory)
ImageFile == <<"img.png">>
CorruptFile == <<"corrupt.png">>
Existing == {ImageFile, CorruptFile}

\* values handed to estimate_depth_wrapper by the UI
AppInputs ==
    {NoneFp, StrFp(<<".", "img.png">>), StrFp(<<"missing.png">>),
     StrFp(<<"corrupt.png">>)}

\* values handed to DepthAnythingPipeline.__call__ by a caller of the class
DirectInputs == {<<".", "img.png">>, <<"missing.png">>}

\* depth images: h rows of w 8-bit grey values
Checker(h, w, first) ==
    [i \in 1..h |-> [j \in 1..w |-> IF (i + j) % 2 = 0 THEN first ELSE 255 - first]]

DepthMaps == {Checker(h, w, 0) : h \in 1..MaxDim, w \in 1..MaxDim}

(***************************************************************************)
(* pathlib: Path(x) drops "." and empty parts; str(path) joins the parts.  *)
(***************************************************************************)
PurePath(parts) == SelectSeq(parts, LAMBDA c : c # "." /\ c # "")

RECURSIVE PathStr(_)
PathStr(parts) ==
    IF parts = <<>> THEN "."
    ELSE IF Len(parts) = 1 THEN parts[1]
    ELSE parts[1] \o "/" \o PathStr(Tail(parts))

\* Path(image_fp) in estimate_depth_wrapper
Path(image_fp) ==
    IF image_fp.none
    THEN Raised("TypeError", "expected str, bytes or os.PathLike object, not NoneType")
    ELSE Returned(PurePath(image_fp.parts))

(***************************************************************************)
(* loguru                                                                  *)
(***************************************************************************)
Info(msg, call) == [level |-> "INFO", msg |-> msg, call |-> call]
Error(msg, call) == [level |-> "ERROR", msg |-> msg, call |-> call]

RECURSIVE Emit(_, _)
\* the sink after the entries of the sequence `entries` were emitted
Emit(sink, entries) ==
    IF entries = <<>> THEN sink
    ELSE Emit(sink (+) SetToBag({Head(entries)}), Tail(entries))

(***************************************************************************)
(* func.py: set_device                                                     *)
(***************************************************************************)
\* variant: cuda is preferred to mps
set_device_cuda_first ==
    IF cuda_available THEN "cuda" ELSE IF mps_available THEN "mps" ELSE "cpu"

set_device ==
    IF mps_available THEN "mps" ELSE IF cuda_available THEN "cuda" ELSE "cpu"

(***************************************************************************)
(* func.py: DepthAnythingPipeline                                          *)
(***************************************************************************)
DEFAULT_MODEL_ID == "LiheYoung/depth-anything-large-hf"

\* variant: the device is probed once per process and kept
init_no_probe(model_id, call) ==
    [self |-> [model_id |-> model_id,
               device |-> IF instances = <<>> THEN set_device ELSE instances[1].device],
     probes |-> IF instances = <<>> THEN 1 ELSE 0,
     log |-> <<>>]

\* __init__: the new object, the probes it makes and what it logs
DepthAnythingPipeline(model_id, call) ==
    [self |-> [model_id |-> model_id, device |-> set_device],
     probes |-> 1,
     log |-> <<Info("Using device: " \o set_device, call)>>]

\* variant: the existence check is left out
validate_nothing(image_path) == Returned(PurePath(image_path))

validate_image_path(image_path) ==
    LET path == PurePath(image_path)
    IN  IF path \notin Existing
        THEN Raised("FileNotFoundError", "Image file " \o PathStr(path) \o " not found.")
        ELSE Returned(path)

\* transformers.pipeline(task="depth-estimation", model=..., device=...): the
\* object it returns, when the model loads; `by` is the invocation that made it
pipeline(model, device, by) == [model |-> model, device |-> device, by |-> by]

NoPipeline == pipeline("", "", 0)

\* variant: a failed construction is tried a second time
setup_pipeline_retry(self, call) ==
    IF model_loads
    THEN [out |-> Returned(pipeline(self.model_id, self.device, call)),
          created |-> {pipeline(self.model_id, self.device, call)},
          log |-> <<Info("Model loaded successfully.", call)>>,
          attempts |-> 1]
    ELSE [out |-> Raised("OSError", "cannot load " \o self.model_id),
          created |-> {},
          log |-> <<Error("Failed to load model: cannot load " \o self.model_id, call)>>,
          attempts |-> 2]

\* variant: a pipeline constructed earlier is used again
setup_pipeline_cached(self, call) ==
    IF pipelines # {}
    THEN [out |-> Returned(CHOOSE p \in pipelines : TRUE),
          created |-> {}, log |-> <<>>, attempts |-> 0]
    ELSE IF model_loads
    THEN [out |-> Returned(pipeline(self.model_id, self.device, call)),
          created |-> {pipeline(self.model_id, self.device, call)},
          log |-> <<Info("Model loaded successfully.", call)>>,
          attempts |-> 1]
    ELSE [out |-> Raised("OSError", "cannot load " \o self.model_id),
          created |-> {},
          log |-> <<Error("Failed to load model: cannot load " \o self.model_id, call)>>,
          attempts |-> 1]

\* setup_pipeline: its outcome, the pipelines it creates, what it logs and
\* how many times it calls transformers.pipeline(...)
setup_pipeline(self, call) ==
    IF model_loads
    THEN [out |-> Returned(pipeline(self.model_id, self.device, call)),
          created |-> {pipeline(self.model_id, self.device, call)},
          log |-> <<Info("Model loaded successfully.", call)>>,
          attempts |-> 1]
    ELSE [out |-> Raised("OSError", "cannot load " \o self.model_id),
          created |-> {},
          log |-> <<Error("Failed to load model: cannot load " \o self.model_id, call)>>,
          attempts |-> 1]

\* depth_pipeline(str(path)): the transformers pipeline decodes the file and
\* returns the depth as an 8-bit single-channel image
run_pipeline(depth_pipeline, path_str) ==
    IF path_str = PathStr(CorruptFile)
    THEN Raised("UnidentifiedImageError", "cannot identify image file " \o path_str)
    ELSE Returned([depth |-> depth_map])

(***************************************************************************)
(* app.py: estimate_depth and estimate_depth_wrapper                       *)
(***************************************************************************)
\* cv2.COLORMAP_INFERNO, blue-green-red, at the two grey values of the maps
COLORMAP_INFERNO(v) == IF v = 0 THEN <<4, 0, 0>> ELSE <<164, 255, 252>>

applyColorMap(src) ==
    [i \in DOMAIN src |-> [j \in DOMAIN src[i] |-> COLORMAP_INFERNO(src[i][j])]]

\* img[:, :, ::-1]
ReverseChannels(img) ==
    [i \in DOMAIN img |->
        [j \in DOMAIN img[i] |-> [c \in 1..3 |-> img[i][j][4 - c]]]]

\* variant: the channels are left in the colour map's order
colorize_no_reverse(depth) == applyColorMap(depth)

\* cv2.applyColorMap(depth, cv2.COLORMAP_INFERNO)[:, :, ::-1]
colorize(depth) == ReverseChannels(applyColorMap(depth))

\* variant: only FileNotFoundError is caught
wrapper_catch_not_found(image_fp, outcome) ==
    IF outcome.ok THEN Returned(<<image_fp, outcome.value>>)
    ELSE IF outcome.type = "FileNotFoundError"
    THEN Returned(<<image_fp, "Error during estimation: " \o outcome.args>>)
    ELSE outcome

\* what estimate_depth_wrapper returns, given the outcome of its try block
estimate_depth_wrapper(image_fp, outcome) ==
    IF outcome.ok THEN Returned(<<image_fp, outcome.value>>)
    ELSE Returned(<<image_fp, "Error during estimation: " \o outcome.args>>)

(***************************************************************************)
(* Threads.  frame[t] holds the locals of the operation thread t runs and  *)
(* what that operation has done so far.                                    *)
(***************************************************************************)
IdleFrame ==
    [pc |-> "idle", kind |-> "none", call |-> 0, image_fp |-> NoneFp,
     image_path |-> <<>>, self |-> 0, path |-> <<>>, depth_pipeline |-> NoPipeline,
     validated |-> FALSE, constructs |-> 0,
     infers |-> 0, used |-> NoPipeline, failed |-> FALSE, result |-> NotCalled]

Idle(t) == t \in workers /\ frame[t].pc \in {"idle", "done"}

\* the thread on which a caller uses the class DepthAnythingPipeline itself
Caller == CHOOSE t \in Threads : \A u \in Threads : t <= u

Free(t) == Idle(t) /\ n_ops < MaxOps

\* variant: path is kept in one place shared by the threads
shared_path(t) == frame[CHOOSE u \in Threads : frame[u].pc = "infer"].path

\* the local variable path of __call__ in thread t
call_path(t) == frame[t].path

\* the frame of an operation that ended with `outcome`
Finished(f, outcome) ==
    [f EXCEPT !.pc = "done",
              !.failed = ~outcome.ok,
              !.result = IF f.kind = "app"
                         THEN estimate_depth_wrapper(f.image_fp, outcome)
                         ELSE outcome]

\* the frame after the first statement of __call__,
\* path = self.validate_image_path(image_path)
Validated(f) ==
    LET v == validate_image_path(f.image_path)
    IN  IF v.ok
        THEN [f EXCEPT !.pc = "setup", !.path = v.value, !.validated = TRUE]
        ELSE Finished(f, v)

Init ==
    /\ port_input = <<>>
    /\ port_first = NotCalled
    /\ port_again = NotCalled
    /\ server_port = DEFAULT_PORT
    /\ mps_available \in BOOLEAN
    /\ cuda_available \in BOOLEAN
    /\ model_loads \in BOOLEAN
    /\ depth_map \in DepthMaps
    /\ workers = {1}
    /\ instances = <<>>
    /\ pipelines = {}
    /\ log = EmptyBag
    /\ frame = [t \in Threads |-> IdleFrame]
    /\ n_ops = 0
    /\ n_probe = 0
    /\ n_construct = 0
    /\ n_valid = 0

\* the UI calls estimate_depth_wrapper(image_fp): Path(image_fp), then
\* estimate_depth creates the wrapper object, logs, and calls the object,
\* which validates the path
AppRequest(t, image_fp) ==
    /\ Free(t)
    /\ n_ops' = n_ops + 1
    /\ LET call == n_ops + 1
           p == Path(image_fp)
           f == [IdleFrame EXCEPT !.kind = "app", !.call = call, !.image_fp = image_fp]
       IN  IF ~p.ok
           THEN /\ frame' = [frame EXCEPT ![t] = Finished(f, p)]
                /\ UNCHANGED <<instances, log, n_probe, n_valid>>
           ELSE LET new == DepthAnythingPipeline(DEFAULT_MODEL_ID, call)
                    g == Validated([f EXCEPT !.self = Len(instances) + 1,
                                             !.image_path = p.value])
                IN  /\ instances' = Append(instances, new.self)
                    /\ n_probe' = n_probe + new.probes
                    /\ log' = Emit(log, new.log \o
                              <<Info("Estimating depth for image: " \o PathStr(p.value), call)>>)
                    /\ frame' = [frame EXCEPT ![t] = g]
                    /\ n_valid' = n_valid + (IF g.validated THEN 1 ELSE 0)
    /\ UNCHANGED <<port_vars, env_vars, pipelines, n_construct>>

\* a caller of the class creates a wrapper object
New(t) ==
    /\ t = Caller
    /\ Idle(t)
    /\ Len(instances) < MaxOps
    /\ LET new == DepthAnythingPipeline(DEFAULT_MODEL_ID, 0)
       IN  /\ instances' = Append(instances, new.self)
           /\ n_probe' = n_probe + new.probes
           /\ log' = Emit(log, new.log)
           /\ frame' = [frame EXCEPT ![t] =
                          [IdleFrame EXCEPT !.pc = "done", !.kind = "new",
                                            !.self = Len(instances) + 1,
                                            !.result = Returned(Len(instances) + 1)]]
    /\ UNCHANGED <<port_vars, env_vars, pipelines, n_ops, n_construct, n_valid>>

\* a caller of the class invokes an existing wrapper object, which validates
\* the path
Call(t, self, image_path) ==
    /\ t = Caller
    /\ Free(t)
    /\ self \in 1..Len(instances)
    /\ n_ops' = n_ops + 1
    /\ LET g == Validated([IdleFrame EXCEPT !.kind = "direct", !.call = n_ops + 1,
                                            !.self = self, !.image_path = image_path])
       IN  /\ frame' = [frame EXCEPT ![t] = g]
           /\ n_valid' = n_valid + (IF g.validated THEN 1 ELSE 0)
    /\ UNCHANGED <<port_vars, env_vars, instances, pipelines, log, n_probe,
                   n_construct>>

\* __call__: depth_pipeline = self.setup_pipeline()
Setup(t) ==
    /\ t \in workers
    /\ frame[t].pc = "setup"
    /\ LET f == frame[t]
           s == setup_pipeline(instances[f.self], f.call)
           g == [f EXCEPT !.constructs = f.constructs + s.attempts]
       IN  /\ n_construct' = n_construct + s.attempts
           /\ pipelines' = pipelines \union s.created
           /\ log' = Emit(log, s.log)
           /\ frame' = [frame EXCEPT ![t] =
                          IF s.out.ok
                          THEN [g EXCEPT !.pc = "infer", !.depth_pipeline = s.out.value]
                          ELSE Finished(g, s.out)]
    /\ UNCHANGED <<port_vars, env_vars, instances, n_ops, n_probe, n_valid>>

\* __call__: return depth_pipeline(str(path)); and, in estimate_depth, the
\* colour image of the depth it returns
Infer(t) ==
    /\ t \in workers
    /\ frame[t].pc = "infer"
    /\ LET f == frame[t]
           r == run_pipeline(f.depth_pipeline, PathStr(call_path(t)))
           g == [f EXCEPT !.infers = f.infers + 1, !.used = f.depth_pipeline]
       IN  frame' = [frame EXCEPT ![t] =
                       IF r.ok /\ f.kind = "app"
                       THEN Finished(g, Returned(colorize(r.value.depth)))
                       ELSE Finished(g, r)]
    /\ UNCHANGED <<port_vars, env_vars, instances, pipelines, log, n_ops, n_probe,
                   n_construct, n_valid>>

Next ==
    \/ \E t \in Threads, image_fp \in AppInputs : AppRequest(t, image_fp)
    \/ \E t \in Threads : New(t)
    \/ \E t \in Threads, self \in 1..(2 * MaxOps), image_path \in DirectInputs :
          Call(t, self, image_path)
    \/ \E t \in Threads : Setup(t)
    \/ \E t \in Threads : Infer(t)

\* demo.queue() with its default: one request at a time
Spec == Init /\ [][Next]_vars

\* the queue configured to run up to NThreads requests at a time
InitConcurrent ==
    /\ port_input = <<>>
    /\ port_first = NotCalled
    /\ port_again = NotCalled
    /\ server_port = DEFAULT_PORT
    /\ mps_available = FALSE
    /\ cuda_available = FALSE
    /\ model_loads \in BOOLEAN
    /\ depth_map = Checker(1, MaxDim, 0)
    /\ workers = Threads
    /\ instances = <<>>
    /\ pipelines = {}
    /\ log = EmptyBag
    /\ frame = [t \in Threads |-> IdleFrame]
    /\ n_ops = 0
    /\ n_probe = 0
    /\ n_construct = 0
    /\ n_valid = 0

SpecConcurrent == InitConcurrent /\ [][Next]_vars

(***************************************************************************)
(* The port derivation and the start of the process.                       *)
(***************************************************************************)
InitPort ==
    /\ port_input \in Strings
    /\ port_first = NotCalled
    /\ port_again = NotCalled
    /\ server_port = NotListening
    /\ mps_available = FALSE
    /\ cuda_available = FALSE
    /\ model_loads = TRUE
    /\ depth_map = Checker(1, 1, 0)
    /\ workers = {1}
    /\ instances = <<>>
    /\ pipelines = {}
    /\ log = EmptyBag
    /\ frame = [t \in Threads |-> IdleFrame]
    /\ n_ops = 0
    /\ n_probe = 0
    /\ n_construct = 0
    /\ n_valid = 0

\* a caller derives the port of port_input
Derive ==
    /\ port_first = NotCalled
    /\ port_first' = string_to_port_crc32(port_input)
    /\ UNCHANGED <<port_input, port_again, server_port, env_vars, app_vars>>

\* and derives it a second time
DeriveAgain ==
    /\ port_first # NotCalled
    /\ port_again = NotCalled
    /\ port_again' = string_to_port_crc32(port_input)
    /\ UNCHANGED <<port_input, port_first, server_port, env_vars, app_vars>>

\* app.py __main__: demo.launch(server_name=LOCAL_CLIENT_IP, server_port=DEFAULT_PORT)
Launch ==
    /\ server_port = NotListening
    /\ server_port' = DEFAULT_PORT
    /\ UNCHANGED <<port_input, port_first, port_again, env_vars, app_vars>>

NextPort == Derive \/ DeriveAgain \/ Launch

SpecPort == InitPort /\ [][NextPort]_vars

(***************************************************************************)
(* Properties.                                                             *)
(***************************************************************************)
\* sub occurs in the string s
Contains(s, sub) ==
    \E i \in 1..(Len(s) - Len(sub) + 1) : SubSeq(s, i, i + Len(sub) - 1) = sub

\* the frame is one of an invocation of a wrapper object (__call__ was entered)
Invoked(f) == f.kind = "direct" \/ (f.kind = "app" /\ ~f.image_fp.none)

\* the frame is one of an invocation on a path that is not on the file system
OnMissingPath(f) == Invoked(f) /\ PurePath(f.image_path) \notin Existing

\* C1: an invocation of the wrapper on a path that does not exist ends with a
\* FileNotFoundError that names the path, and has called transformers'
\* pipeline(...) not once; no invocation constructs before it has validated.
C1_NotFoundBeforeConstruction ==
    \A t \in Threads :
        LET f == frame[t]
        IN  /\ (f.constructs > 0 \/ f.depth_pipeline # NoPipeline) => f.validated
            /\ OnMissingPath(f) =>
                  /\ f.pc = "done"
                  /\ f.failed
                  /\ ~f.validated
                  /\ f.constructs = 0
                  /\ f.infers = 0
                  /\ f.kind = "direct" =>
                        /\ ~f.result.ok
                        /\ f.result.type = "FileNotFoundError"
                        /\ Contains(f.result.args, PathStr(PurePath(f.image_path)))
                  /\ f.kind = "app" =>
                        Contains(f.result.value[2],
                                 "Image file " \o PathStr(PurePath(f.image_path))
                                    \o " not found.")

C1_Witness ==
    \E t \in Threads :
        /\ frame[t].kind = "direct"
        /\ OnMissingPath(frame[t])
        /\ frame[t].pc = "done"
        /\ frame[t].result.type = "FileNotFoundError"
        /\ n_construct = 0

\* C2: estimate_depth_wrapper always returns a pair whose first element is the
\* image_fp it was given; when a step failed, the second element is a string
\* that contains "Error".
C2_WrapperNeverRaises ==
    \A t \in Threads :
        LET f == frame[t]
        IN  (f.kind = "app" /\ f.pc = "done") =>
                /\ f.result.ok
                /\ Len(f.result.value) = 2
                /\ f.result.value[1] = f.image_fp
                /\ f.failed => Contains(f.result.value[2], "Error")

C2_Witness ==
    \E t \in Threads :
        /\ frame[t].kind = "app"
        /\ frame[t].pc = "done"
        /\ frame[t].failed
        /\ frame[t].constructs = 1
        /\ frame[t].result.value[1] = StrFp(<<".", "img.png">>)
        /\ Contains(frame[t].result.value[2], "Error")

\* C3 as stated: every derivation returns a port in [10000, 60000).
C3_EveryStringHasPort ==
    port_first # NotCalled =>
        /\ port_first.ok
        /\ port_first.value >= 10000
        /\ port_first.value < 60000

\* C3, amended: for every string that has a UTF-8 encoding the derivation
\* returns a port in [10000, 60000), and a second derivation returns the same
\* port; for a string with a lone surrogate it raises UnicodeEncodeError.
C3_EncodableStringHasPort ==
    /\ port_first # NotCalled =>
          /\ Encodable(port_input) =>
                /\ port_first.ok
                /\ port_first.value >= 10000
                /\ port_first.value < 60000
          /\ ~Encodable(port_input) =>
                /\ ~port_first.ok
                /\ port_first.type = "UnicodeEncodeError"
    /\ port_again # NotCalled => port_again = port_first

C3_Witness ==
    /\ Len(port_input) >= 2
    /\ port_first.ok
    /\ port_again = port_first

\* C4: the port derived from "depth_estimator" is 45944, and the process
\* listens on it.
C4_DefaultPort ==
    /\ DEFAULT_PORT = 45944
    /\ server_port # NotListening => server_port = 45944

C4_Witness == server_port = 45944

\* C5: an invocation whose pipeline construction fails has logged one error,
\* ends with the failure of the construction, has called pipeline(...)
\* exactly once and has not run inference; nothing was constructed instead.
C5_ConstructionFailurePropagates ==
    \A t \in Threads :
        LET f == frame[t]
        IN  (Invoked(f) /\ f.validated /\ ~model_loads) =>
                /\ f.pc \in {"setup", "done"}
                /\ f.infers = 0
                /\ pipelines = {}
                /\ f.pc = "done" =>
                      /\ f.constructs = 1
                      /\ f.failed
                      /\ \E e \in BagToSet(log) :
                            /\ e.level = "ERROR"
                            /\ e.call = f.call
                            /\ CopiesIn(e, log) = 1
                            /\ Contains(e.msg, "Failed to load model")
                      /\ f.kind = "direct" =>
                            /\ ~f.result.ok
                            /\ f.result.type = "OSError"
                      /\ f.kind = "app" =>
                            Contains(f.result.value[2], "cannot load " \o DEFAULT_MODEL_ID)

C5_Witness ==
    \E t \in Threads :
        /\ frame[t].kind = "direct"
        /\ frame[t].pc = "done"
        /\ frame[t].validated
        /\ frame[t].result.type = "OSError"
        /\ frame[t].constructs = 1

\* C6: the number of constructions equals the number of invocations whose
\* validation succeeded (less those that have not yet reached construction),
\* and an invocation holds and runs only a pipeline it constructed itself.
C6_FreshPipelinePerInvocation ==
    /\ n_construct = n_valid - Cardinality({t \in Threads : frame[t].pc = "setup"})
    /\ \A t \in Threads :
          LET f == frame[t]
          IN  /\ f.depth_pipeline # NoPipeline => f.depth_pipeline.by = f.call
              /\ f.used # NoPipeline => f.used.by = f.call
              /\ (Invoked(f) /\ f.pc = "done" /\ f.validated) => f.constructs = 1

C6_Witness ==
    /\ n_valid = 2
    /\ n_construct = 2
    /\ Len(instances) = 1
    /\ Cardinality(pipelines) = 2
    /\ \A t \in Threads : frame[t].pc \in {"idle", "done"}

\* C7: every wrapper object holds "mps" when mps is available, else "cuda"
\* when cuda is available, else "cpu"; every probe returned a device.
C7_DevicePreference ==
    /\ n_probe = Len(instances)
    /\ \A i \in DOMAIN instances :
          LET d == instances[i].device
          IN  /\ mps_available => d = "mps"
              /\ (~mps_available /\ cuda_available) => d = "cuda"
              /\ (~mps_available /\ ~cuda_available) => d = "cpu"

C7_Witness ==
    /\ ~mps_available
    /\ ~cuda_available
    /\ instances # <<>>
    /\ instances[1].device = "cpu"
    /\ [level |-> "INFO", msg |-> "Using device: cpu", call |-> 0] \in BagToSet(log)

\* C8 as stated: there are never fewer device probes than constructions.
C8_ProbePerConstruction == n_probe >= n_construct

\* C8, amended: the device is probed once per wrapper object, when the object
\* is created, and every pipeline is constructed with the device of the
\* object that constructs it.
C8_ProbePerInstance ==
    /\ n_probe = Len(instances)
    /\ \A t \in Threads :
          LET f == frame[t]
          IN  f.depth_pipeline # NoPipeline =>
                  /\ f.self \in DOMAIN instances
                  /\ f.depth_pipeline.device = instances[f.self].device
                  /\ f.depth_pipeline.device = set_device

C8_Witness ==
    /\ Len(instances) = 1
    /\ n_probe = 1
    /\ n_construct = 2
    /\ \E t \in Threads : frame[t].kind = "direct" /\ frame[t].pc = "done"

\* C9: for the image file, when the model loads, estimate_depth_wrapper
\* returns the image_fp it was given and an image of the height and width of
\* the depth map with three channels per pixel, which are the channels of
\* the colour map in reverse order.
C9_ColorizedShape ==
    \A t \in Threads :
        LET f == frame[t]
        IN  (f.kind = "app" /\ f.pc = "done" /\ model_loads
                /\ ~f.image_fp.none /\ PurePath(f.image_fp.parts) = ImageFile) =>
                /\ ~f.failed
                /\ f.result.ok
                /\ f.result.value[1] = f.image_fp
                /\ LET img == f.result.value[2]
                   IN  /\ Len(img) = Len(depth_map)
                       /\ \A i \in 1..Len(depth_map) :
                             /\ Len(img[i]) = Len(depth_map[i])
                             /\ \A j \in 1..Len(depth_map[i]) :
                                   /\ Len(img[i][j]) = 3
                                   /\ \A c \in 1..3 :
                                         img[i][j][c] =
                                            COLORMAP_INFERNO(depth_map[i][j])[4 - c]
                                   /\ depth_map[i][j] = 0 => img[i][j] = <<0, 0, 4>>
                                   /\ depth_map[i][j] = 255 => img[i][j] = <<252, 255, 164>>

C9_Witness ==
    \E t \in Threads :
        /\ frame[t].kind = "app"
        /\ frame[t].pc = "done"
        /\ ~frame[t].failed
        /\ Len(depth_map) = 1
        /\ Len(depth_map[1]) = 2
        /\ frame[t].result.value[2] = <<<< <<0, 0, 4>>, <<252, 255, 164>> >>>>

\* what a request on image_fp fails with in this environment ("" when it
\* does not fail)
ExpectedError(image_fp) ==
    IF image_fp.none
    THEN "expected str, bytes or os.PathLike object, not NoneType"
    ELSE IF PurePath(image_fp.parts) \notin Existing
    THEN "Image file " \o PathStr(PurePath(image_fp.parts)) \o " not found."
    ELSE IF ~model_loads THEN "cannot load " \o DEFAULT_MODEL_ID
    ELSE IF PurePath(image_fp.parts) = CorruptFile
    THEN "cannot identify image file " \o PathStr(CorruptFile)
    ELSE ""

\* C10: whatever the other threads do and have done, the pair a request
\* returns is the one its image_fp has in the environment.
C10_RequestsIndependent ==
    \A t \in Threads :
        LET f == frame[t]
        IN  (f.kind = "app" /\ f.pc = "done") =>
                /\ f.result.ok
                /\ f.result.value[1] = f.image_fp
                /\ f.failed = (ExpectedError(f.image_fp) # "")
                /\ f.failed =>
                      f.result.value[2] =
                         "Error during estimation: " \o ExpectedError(f.image_fp)
                /\ ~f.failed =>
                      f.result.value[2] =
                         [i \in 1..Len(depth_map) |->
                            [j \in 1..Len(depth_map[i]) |->
                               IF depth_map[i][j] = 0 THEN <<0, 0, 4>>
                               ELSE <<252, 255, 164>>]]

C10_Witness ==
    \E t, u \in Threads :
        /\ t # u
        /\ frame[t].kind = "app" /\ frame[u].kind = "app"
        /\ frame[t].pc = "done" /\ frame[u].pc = "infer"
        /\ frame[t].failed
        /\ frame[t].infers = 1
        /\ frame[u].call < frame[t].call

====
